---------------------------- MODULE Spec2Model ----------------------------
(***************************************************************************)
(* Model of src/task3b/build_task3b.py: the artist trajectory forecasting  *)
(* and clustering pipeline (main) and its pure helpers (parse_year,        *)
(* linear_forecast, normalize_metric).                                     *)
(*                                                                         *)
(* Python floats are modelled as exact rationals [num, den] with den > 0.  *)
(* Python's None is the empty tuple <<>>, a present value v is <<v>>.      *)
(* Strings that the code converts (names, genres, release dates) are       *)
(* sequences of one-character strings.                                     *)
(***************************************************************************)
EXTENDS Integers, Sequences, FiniteSets, TLC

VARIABLES
    pc,                  \* position of main(): the next block to run
    edges,               \* graph["edges"], the input edge list
    artists_with_oceanus,
    work_to_people,
    credits,
    artist_year,
    min_year, max_year,
    artist_payload,
    cand_k,              \* loop variable k of the candidate loop
    elbow_points, silhouette_points, silhouette_raw_points,
    best_k, best_sil, best_k_ge3, best_sil_ge3,
    cand_log,            \* history: per candidate, whether its silhouette was undefined
                         \* and which of the two bests it updated
    final_labels,
    json_written, html_written,
    failure,             \* the exception main() ended with, or <<>>
    fn_in, fn_out        \* argument and result of a pure function applied on its own

vars == <<pc, edges, artists_with_oceanus, work_to_people, credits, artist_year,
          min_year, max_year, artist_payload, cand_k, elbow_points,
          silhouette_points, silhouette_raw_points, best_k, best_sil,
          best_k_ge3, best_sil_ge3, cand_log, final_labels,
          json_written, html_written, failure, fn_in, fn_out>>

-----------------------------------------------------------------------------
(* Bounds of the model *)

\* at most this many edges of EdgePool form the input edge list
MaxEdges == 4
\* largest regression window drawn for linear_forecast applied on its own
MaxWin == 4
\* largest series value drawn for linear_forecast applied on its own
MaxVal == 2
\* largest artist population drawn for normalisation and clustering on their own,
\* with every partition the clustering library may return
MaxPop == 4
\* one larger population, clustered with the partitions of StripedLabels only
LargePop == 10
\* one longer year range drawn for a trajectory built on its own, longer than the
\* regression window
LongSpan == 9

-----------------------------------------------------------------------------
(* Python values *)

None == <<>>
Some(v) == <<v>>
IsNone(o) == o = <<>>
Val(o) == o[1]

Min2(a, b) == IF a <= b THEN a ELSE b
Max2(a, b) == IF a >= b THEN a ELSE b
Abs(a) == IF a < 0 THEN -a ELSE a

RECURSIVE Gcd(_, _)
Gcd(a, b) == IF b = 0 THEN a ELSE Gcd(b, a % b)

\* rationals standing for Python floats
Rat(n, d) ==
    LET s == IF d < 0 THEN -1 ELSE 1
        g == Gcd(Abs(n), Abs(d))
    IN  [num |-> (s * n) \div g, den |-> (s * d) \div g]
RInt(n) == [num |-> n, den |-> 1]
RLe(a, b) == a.num * b.den <= b.num * a.den
RLt(a, b) == a.num * b.den < b.num * a.den
REq(a, b) == a.num * b.den = b.num * a.den
RAdd(a, b) == Rat(a.num * b.den + b.num * a.den, a.den * b.den)
RSub(a, b) == Rat(a.num * b.den - b.num * a.den, a.den * b.den)
RMul(a, b) == Rat(a.num * b.num, a.den * b.den)
RDiv(a, b) == Rat(a.num * b.den, a.den * b.num)
RMax(a, b) == IF RLt(a, b) THEN b ELSE a
RMin(a, b) == IF RLt(b, a) THEN b ELSE a

RECURSIVE SeqSum(_)
SeqSum(s) == IF s = <<>> THEN 0 ELSE Head(s) + SeqSum(Tail(s))

RECURSIVE RSeqMin(_)
RSeqMin(s) == IF Len(s) = 1 THEN s[1] ELSE RMin(s[1], RSeqMin(Tail(s)))
RECURSIVE RSeqMax(_)
RSeqMax(s) == IF Len(s) = 1 THEN s[1] ELSE RMax(s[1], RSeqMax(Tail(s)))

SetMin(S) == CHOOSE x \in S : \A y \in S : x <= y
SetMax(S) == CHOOSE x \in S : \A y \in S : x >= y

-----------------------------------------------------------------------------
(* Strings as character sequences *)

Whitespace == {" ", "\t", "\n"}
Digits == <<"0", "1", "2", "3", "4", "5", "6", "7", "8", "9">>
UpperCase == <<"A", "B", "C", "D", "E", "F", "G", "H", "I", "J", "K", "L", "M",
               "N", "O", "P", "Q", "R", "S", "T", "U", "V", "W", "X", "Y", "Z">>
LowerCase == <<"a", "b", "c", "d", "e", "f", "g", "h", "i", "j", "k", "l", "m",
               "n", "o", "p", "q", "r", "s", "t", "u", "v", "w", "x", "y", "z">>

IsDigit(c) == \E i \in 1..Len(Digits) : Digits[i] = c
DigitVal(c) == (CHOOSE i \in 1..Len(Digits) : Digits[i] = c) - 1

\* str.lower() on one character
LowerChar(c) ==
    IF \E i \in 1..Len(UpperCase) : UpperCase[i] = c
    THEN LowerCase[CHOOSE i \in 1..Len(UpperCase) : UpperCase[i] = c]
    ELSE c
StrLower(s) == [i \in 1..Len(s) |-> LowerChar(s[i])]

\* str.strip()
RECURSIVE LStrip(_)
LStrip(s) == IF s # <<>> /\ Head(s) \in Whitespace THEN LStrip(Tail(s)) ELSE s
RECURSIVE RStrip(_)
RStrip(s) ==
    IF s # <<>> /\ s[Len(s)] \in Whitespace
    THEN RStrip(SubSeq(s, 1, Len(s) - 1)) ELSE s
StrStrip(s) == RStrip(LStrip(s))

\* " ".join(s.split()): the words of s, separated by single spaces
RECURSIVE JoinSplit(_)
JoinSplit(s) ==
    LET t == LStrip(s) IN
    IF t = <<>> THEN <<>>
    ELSE LET n == IF \E i \in 1..Len(t) : t[i] \in Whitespace
                  THEN (CHOOSE i \in 1..Len(t) :
                            /\ t[i] \in Whitespace
                            /\ \A j \in 1..(i - 1) : t[j] \notin Whitespace) - 1
                  ELSE Len(t)
             word == SubSeq(t, 1, n)
             rest == JoinSplit(SubSeq(t, n + 1, Len(t)))
         IN  IF rest = <<>> THEN word ELSE word \o <<" ">> \o rest

RECURSIVE DigitsValue(_)
DigitsValue(s) ==
    IF s = <<>> THEN 0 ELSE 10 * DigitsValue(SubSeq(s, 1, Len(s) - 1)) + DigitVal(s[Len(s)])

\* int(text): an optional sign, then one or more digits; anything else raises ValueError
IntOf(text) ==
    LET t == StrStrip(text)
        signed == t # <<>> /\ t[1] \in {"+", "-"}
        body == IF signed THEN Tail(t) ELSE t
    IN  IF body # <<>> /\ \A i \in 1..Len(body) : IsDigit(body[i])
        THEN Some(IF signed /\ t[1] = "-" THEN -DigitsValue(body) ELSE DigitsValue(body))
        ELSE None

\* mutant: an unparseable date counts as year 0 instead of None
parse_year_default_zero(value) ==
    IF IsNone(value) THEN Some(0)
    ELSE LET y == IntOf(SubSeq(Val(value), 1, Min2(4, Len(Val(value)))))
         IN  IF IsNone(y) THEN Some(0) ELSE y

parse_year(value) ==
    IF IsNone(value) THEN None
    ELSE IntOf(SubSeq(Val(value), 1, Min2(4, Len(Val(value)))))

-----------------------------------------------------------------------------
(* Program constants *)

CREATIVE_EDGES == {"PerformerOf", "ProducerOf", "ComposerOf", "LyricistOf"}
ARTIST_TYPES == {"Person", "MusicalGroup"}
WORK_TYPES == {"Song", "Album"}
TARGET_GENRE == <<"o", "c", "e", "a", "n", "u", "s", " ", "f", "o", "l", "k">>
PRED_YEARS_AHEAD == 5
RECENT_WINDOW_YEARS == 7
\* SCORE_ALPHA = 0.7 as the rational 7/10
SCORE_ALPHA == [num |-> 7, den |-> 10]
REFERENCE_NAME == <<"S", "a", "i", "l", "o", "r", " ", "S", "h", "i", "f", "t">>

-----------------------------------------------------------------------------
(* The input graph: a fixed node list, and an edge list drawn from EdgePool *)

OceanusFolk == <<"O", "c", "e", "a", "n", "u", "s", " ", "F", "o", "l", "k">>
OceanusPadded == <<" ", "o", "c", "e", "a", "n", "u", "s", " ", "F", "O", "L", "K", " ">>
IndieRock == <<"I", "n", "d", "i", "e", " ", "R", "o", "c", "k">>

GraphNodeList == <<
    [id |-> 1, type |-> "Person", name |-> Some(<<"A", "n", "n", " ", " ", "L", "e", "e">>),
     genre |-> None, notable |-> FALSE, release_date |-> None],
    [id |-> 2, type |-> "Person", name |-> Some(<<"A", "n", "n", " ", "L", "e", "e">>),
     genre |-> None, notable |-> FALSE, release_date |-> None],
    [id |-> 3, type |-> "MusicalGroup", name |-> Some(REFERENCE_NAME),
     genre |-> None, notable |-> FALSE, release_date |-> None],
    [id |-> 4, type |-> "RecordLabel", name |-> Some(<<"L", "a", "b">>),
     genre |-> None, notable |-> FALSE, release_date |-> None],
    [id |-> 5, type |-> "Song", name |-> Some(<<"S", "5">>),
     genre |-> Some(OceanusFolk), notable |-> TRUE,
     release_date |-> Some(<<"2", "0", "2", "0", "-", "0", "5">>)],
    [id |-> 6, type |-> "Album", name |-> Some(<<"A", "6">>),
     genre |-> Some(IndieRock), notable |-> FALSE,
     release_date |-> Some(<<"2", "0", "2", "2">>)],
    [id |-> 7, type |-> "Song", name |-> Some(<<"S", "7">>),
     genre |-> Some(OceanusFolk), notable |-> TRUE,
     release_date |-> Some(<<"2", "0", "x", "x">>)],
    [id |-> 8, type |-> "Song", name |-> Some(<<"S", "8">>),
     genre |-> Some(IndieRock), notable |-> TRUE,
     release_date |-> Some(<<"2", "0", "2", "2", "-", "1", "1">>)],
    [id |-> 10, type |-> "Person", name |-> Some(<<"B", "o">>),
     genre |-> None, notable |-> FALSE, release_date |-> None],
    [id |-> 11, type |-> "Album", name |-> Some(<<"A", "1", "1">>),
     genre |-> Some(OceanusPadded), notable |-> FALSE,
     release_date |-> Some(<<"2", "0", "1", "4">>)],
    [id |-> 12, type |-> "Person", name |-> None,
     genre |-> None, notable |-> FALSE, release_date |-> None]
>>

\* an id no node has
MissingId == Len(GraphNodeList) + 2

Edge(t, s, g) == [type |-> t, source |-> s, target |-> g]

EdgePool == <<
    Edge("PerformerOf", 1, 5),
    Edge("ComposerOf", 2, 5),
    Edge("PerformerOf", 3, 5),
    Edge("PerformerOf", 10, 5),
    Edge("PerformerOf", 1, 6),
    Edge("ComposerOf", 1, 6),
    Edge("PerformerOf", 10, 6),
    Edge("PerformerOf", 1, 8),
    Edge("PerformerOf", 1, 7),
    Edge("PerformerOf", 1, MissingId),
    Edge("PerformerOf", MissingId, 5),
    Edge("PerformerOf", 4, 5),
    Edge("PerformerOf", 1, 3),
    Edge("InStyleOf", 1, 5),
    Edge("PerformerOf", 10, 11),
    Edge("LyricistOf", 12, 5)
>>

\* the elements of EdgePool at the positions S, in the pool's order
RECURSIVE PickEdges(_, _)
PickEdges(S, i) ==
    IF i > Len(EdgePool) THEN <<>>
    ELSE (IF i \in S THEN <<EdgePool[i]>> ELSE <<>>) \o PickEdges(S, i + 1)

EdgeLists ==
    {PickEdges(S, 1) : S \in {T \in SUBSET (1..Len(EdgePool)) : Cardinality(T) <= MaxEdges}}

-----------------------------------------------------------------------------
(* main(), lines 61-129: the node index and the credit extraction *)

\* nodes = {node["id"]: node for node in graph["nodes"]}: the last node of an id wins
nodes ==
    [id \in {GraphNodeList[i].id : i \in 1..Len(GraphNodeList)} |->
        GraphNodeList[SetMax({i \in 1..Len(GraphNodeList) : GraphNodeList[i].id = id})]]

\* (node.get("genre") or "").strip().lower()
GenreKey(node) ==
    StrLower(StrStrip(IF IsNone(node.genre) THEN <<>> ELSE Val(node.genre)))

oceanus_works ==
    {nid \in DOMAIN nodes :
        /\ nodes[nid].type \in WORK_TYPES
        /\ GenreKey(nodes[nid]) = TARGET_GENRE}

\* mutant: the test forgets the target
EndpointsKnownSourceOnly(e) == e.source \in DOMAIN nodes

\* the test "src not in nodes or tgt not in nodes" of the three loops, negated
EndpointsKnown(e) == e.source \in DOMAIN nodes /\ e.target \in DOMAIN nodes

\* the loop of lines 77-87 over the edges es, from the set acc
RECURSIVE QualifyLoop(_, _)
QualifyLoop(es, acc) ==
    IF es = <<>> THEN acc
    ELSE LET e == Head(es) IN
         IF e.type \notin CREATIVE_EDGES THEN QualifyLoop(Tail(es), acc)
         ELSE IF ~EndpointsKnown(e) THEN QualifyLoop(Tail(es), acc)
         ELSE IF nodes[e.source].type \notin ARTIST_TYPES THEN QualifyLoop(Tail(es), acc)
         ELSE IF e.target \in oceanus_works THEN QualifyLoop(Tail(es), acc \cup {e.source})
         ELSE QualifyLoop(Tail(es), acc)

\* defaultdict(set): add v to the set at key k
AddTo(d, k, v) ==
    [x \in DOMAIN d \cup {k} |->
        IF x = k THEN (IF k \in DOMAIN d THEN d[k] ELSE {}) \cup {v} ELSE d[x]]

EmptyDict == [x \in {} |-> {}]

\* the loop of lines 91-102
RECURSIVE PeopleLoop(_, _)
PeopleLoop(es, acc) ==
    IF es = <<>> THEN acc
    ELSE LET e == Head(es) IN
         IF e.type \notin CREATIVE_EDGES THEN PeopleLoop(Tail(es), acc)
         ELSE IF ~EndpointsKnown(e) THEN PeopleLoop(Tail(es), acc)
         ELSE IF nodes[e.source].type # "Person" THEN PeopleLoop(Tail(es), acc)
         ELSE IF nodes[e.target].type \notin WORK_TYPES THEN PeopleLoop(Tail(es), acc)
         ELSE PeopleLoop(Tail(es), AddTo(acc, e.target, e.source))

\* mutant: only qualifying-genre works yield a credit
CreditTargetGenreGated(tgt) == tgt \in oceanus_works

\* line 117, negated: the target of a credit is a work of any genre
CreditTarget(tgt) == nodes[tgt].type \in WORK_TYPES

\* the row of lines 121-129
CreditRow(e) ==
    [artist_id |-> e.source,
     artist |-> nodes[e.source].name,
     work_id |-> e.target,
     notable |-> nodes[e.target].notable,
     release_date |-> nodes[e.target].release_date]

\* the loop of lines 106-129, given the qualified set q
RECURSIVE CreditsLoop(_, _, _)
CreditsLoop(es, q, acc) ==
    IF es = <<>> THEN acc
    ELSE LET e == Head(es) IN
         IF e.type \notin CREATIVE_EDGES THEN CreditsLoop(Tail(es), q, acc)
         ELSE IF e.source \notin q THEN CreditsLoop(Tail(es), q, acc)
         ELSE IF ~EndpointsKnown(e) THEN CreditsLoop(Tail(es), q, acc)
         ELSE IF nodes[e.source].type \notin ARTIST_TYPES THEN CreditsLoop(Tail(es), q, acc)
         ELSE IF ~CreditTarget(e.target) THEN CreditsLoop(Tail(es), q, acc)
         ELSE CreditsLoop(Tail(es), q, Append(acc, CreditRow(e)))

\* a subscript nodes[...] of lines 84-100 raises KeyError on the edges es: it is
\* reached only by an edge that passed the endpoint test of its loop
IndexRaises(es) ==
    \E i \in 1..Len(es) :
        /\ es[i].type \in CREATIVE_EDGES
        /\ EndpointsKnown(es[i])
        /\ \/ es[i].source \notin DOMAIN nodes
           \/ /\ es[i].target \notin DOMAIN nodes
              /\ nodes[es[i].source].type = "Person"

\* the same for the subscripts of lines 115-127
CreditsRaise(es, q) ==
    \E i \in 1..Len(es) :
        /\ es[i].type \in CREATIVE_EDGES
        /\ es[i].source \in q
        /\ EndpointsKnown(es[i])
        /\ \/ es[i].source \notin DOMAIN nodes
           \/ /\ es[i].target \notin DOMAIN nodes
              /\ nodes[es[i].source].type \in ARTIST_TYPES

-----------------------------------------------------------------------------
(* main(), lines 132-150: the yearly buckets per normalized artist name *)

EmptyBucket == [works |-> {}, notable |-> {}, collabs |-> {}]

\* mutant: the name is never found, every row opens a new entry
NameIndexNeverFound(ay, name) == 0

\* position of name in the dict ay (a sequence of [name, yearly]), or 0
NameIndex(ay, name) ==
    IF \E i \in 1..Len(ay) : ay[i].name = name
    THEN CHOOSE i \in 1..Len(ay) : ay[i].name = name
    ELSE 0

\* mutant: the credited artist is not discarded
RowCollabsWithSelf(row, wtp) ==
    IF row.work_id \in DOMAIN wtp THEN wtp[row.work_id] ELSE {}

\* the collaborators of a row, lines 148-149
RowCollabs(row, wtp) ==
    (IF row.work_id \in DOMAIN wtp THEN wtp[row.work_id] ELSE {}) \ {row.artist_id}

\* mutant: every credit row adds an element of its own to works, as a list would
UpdateBucketCountsCredits(b, row, wtp) ==
    [works |-> b.works \cup {<<row.work_id, Cardinality(b.works)>>},
     notable |-> IF row.notable THEN b.notable \cup {row.work_id} ELSE b.notable,
     collabs |-> b.collabs \cup RowCollabs(row, wtp)]

\* lines 145-150 on the bucket b
UpdateBucket(b, row, wtp) ==
    [works |-> b.works \cup {row.work_id},
     notable |-> IF row.notable THEN b.notable \cup {row.work_id} ELSE b.notable,
     collabs |-> b.collabs \cup RowCollabs(row, wtp)]

\* artist_year[name][year] updated by row; both defaultdicts create what is missing
PutRow(ay, name, year, row, wtp) ==
    LET i == NameIndex(ay, name)
        yearly == IF i = 0 THEN [y \in {} |-> EmptyBucket] ELSE ay[i].yearly
        old == IF year \in DOMAIN yearly THEN yearly[year] ELSE EmptyBucket
        new == [y \in DOMAIN yearly \cup {year} |->
                    IF y = year THEN UpdateBucket(old, row, wtp) ELSE yearly[y]]
    IN  IF i = 0 THEN Append(ay, [name |-> name, yearly |-> new])
        ELSE [ay EXCEPT ![i].yearly = new]

\* the loop of lines 136-150
RECURSIVE BucketsLoop(_, _, _)
BucketsLoop(rows, wtp, acc) ==
    IF rows = <<>> THEN acc
    ELSE LET row == Head(rows)
             year == parse_year(row.release_date)
         IN  IF IsNone(year) THEN BucketsLoop(Tail(rows), wtp, acc)
             ELSE IF IsNone(row.artist) \/ Val(row.artist) = <<>>
                  THEN BucketsLoop(Tail(rows), wtp, acc)
             ELSE BucketsLoop(Tail(rows), wtp,
                              PutRow(acc, JoinSplit(Val(row.artist)), Val(year), row, wtp))

\* {y for aid in artist_year for y in artist_year[aid]}, line 152
AllYears(ay) == UNION {DOMAIN ay[i].yearly : i \in 1..Len(ay)}

-----------------------------------------------------------------------------
(* linear_forecast, lines 40-57 *)

RECURSIVE DotSum(_, _)
DotSum(a, b) == IF a = <<>> THEN 0 ELSE Head(a) * Head(b) + DotSum(Tail(a), Tail(b))

\* the least-squares line through (years[i], values[i]), as np.linalg.lstsq finds it
\* for two or more points with distinct years
LstsqFit(years, values) ==
    LET n == Len(years)
        sx == SeqSum(years)
        sy == SeqSum(values)
        sxx == DotSum(years, years)
        sxy == DotSum(years, values)
        slope == Rat(n * sxy - sx * sy, n * sxx - sx * sx)
        intercept == RDiv(RSub(RInt(sy), RMul(slope, RInt(sx))), RInt(n))
    IN  [slope |-> slope, intercept |-> intercept]

\* mutant: the projection is returned without the floor
FloorPredMissing(pred, last_val) == pred

\* line 56: pred = max(pred, last_val)
FloorPred(pred, last_val) == RMax(pred, last_val)

linear_forecast(years, values, pred_year) ==
    IF Len(years) < 2
    THEN LET last_val == IF values # <<>> THEN RInt(values[Len(values)]) ELSE RInt(0)
         IN  [predicted |-> last_val, current |-> last_val, delta |-> RInt(0)]
    ELSE LET fit == LstsqFit(years, values)
             raw == RAdd(RMul(fit.slope, RInt(pred_year)), fit.intercept)
             last_val == RInt(values[Len(values)])
             pred == FloorPred(raw, last_val)
         IN  [predicted |-> pred, current |-> last_val,
              delta |-> RMax(RSub(pred, last_val), RInt(0))]

-----------------------------------------------------------------------------
(* main(), lines 156-240: the trajectories and their forecasts *)

Range(a, b) == [i \in 1..(b - a + 1) |-> a + i - 1]
InSeq(x, s) == \E i \in 1..Len(s) : s[i] = x

\* lines 158-162
RecentYears(mn, mx) ==
    IF RECENT_WINDOW_YEARS # 0
    THEN Range(mx - (RECENT_WINDOW_YEARS - 1), mx)
    ELSE Range(mn, mx)

\* lines 163-167, DISPLAY_YEARS being None
DisplayYears(mn, mx) == Range(mn, mx)

\* mutant: the counter is overwritten by the year's count
AccumulateReset(cum, add) == add

\* mutant: the counter keeps the largest yearly count instead of the sum
AccumulatePeak(cum, add) == Max2(cum, add)

\* lines 186-188: one step of the running accumulation
Accumulate(cum, add) == cum + add

\* lines 172-189: the rows (year, cum_releases, cum_collabs, cum_notable) of the years
\* from year to mx, the counters being cr, cc and cn before year
RECURSIVE SeriesFrom(_, _, _, _, _, _)
SeriesFrom(yearly, year, mx, cr, cc, cn) ==
    IF year > mx THEN <<>>
    ELSE LET has == year \in DOMAIN yearly
             releases == IF has THEN Cardinality(yearly[year].works) ELSE 0
             notable == IF has THEN Cardinality(yearly[year].notable) ELSE 0
             collabs == IF has THEN Cardinality(yearly[year].collabs) ELSE 0
             r == Accumulate(cr, releases)
             c == Accumulate(cc, collabs)
             n == Accumulate(cn, notable)
         IN  <<[year |-> year, activity |-> r, influence |-> c, popularity |-> n]>>
             \o SeriesFrom(yearly, year + 1, mx, r, c, n)

Series(yearly, mn, mx) == SeriesFrom(yearly, mn, mx, 0, 0, 0)

\* mutant: series[-6:-1], the last point is left out
LastFiveExcludingLast(series) == SubSeq(series, Max2(1, Len(series) - 5), Len(series) - 1)

\* series[-5:]
LastFive(series) == SubSeq(series, Max2(1, Len(series) - 4), Len(series))

\* lines 192-194
Window(series, mn, mx) ==
    LET inWindow(row) == InSeq(row.year, RecentYears(mn, mx))
        w == SelectSeq(series, inWindow)
    IN  IF Len(w) < 2 THEN LastFive(series) ELSE w

Column(rows, f) == [i \in 1..Len(rows) |-> rows[i][f]]

\* lines 171-240 for one entry of artist_year
PayloadEntry(entry, mn, mx) ==
    LET series == Series(entry.yearly, mn, mx)
        w == Window(series, mn, mx)
        pred_year == mx + PRED_YEARS_AHEAD
        inDisplay(row) == InSeq(row.year, DisplayYears(mn, mx))
        shown == SelectSeq(series, inDisplay)
    IN  [name |-> entry.name,
         activity |-> linear_forecast(Column(w, "year"), Column(w, "activity"), pred_year),
         influence |-> linear_forecast(Column(w, "year"), Column(w, "influence"), pred_year),
         popularity |-> linear_forecast(Column(w, "year"), Column(w, "popularity"), pred_year),
         series |-> [years |-> DisplayYears(mn, mx),
                     activity |-> Column(shown, "activity"),
                     influence |-> Column(shown, "influence"),
                     popularity |-> Column(shown, "popularity")]]

BuildPayload(ay, mn, mx) == [i \in 1..Len(ay) |-> PayloadEntry(ay[i], mn, mx)]

-----------------------------------------------------------------------------
(* main(), lines 243-269: min-max normalisation and the composite score *)

\* mutant: the offset is divided by the maximum instead of the range
RescaleByMax(v, min_val, max_val) == RDiv(RSub(v, min_val), max_val)

\* line 249: (value - min_val) / (max_val - min_val)
Rescale(v, min_val, max_val) == RDiv(RSub(v, min_val), RSub(max_val, min_val))

\* lines 244-251 on the list of values, position by position
NormalizeValues(values) ==
    LET min_val == RSeqMin(values)
        max_val == RSeqMax(values)
    IN  IF REq(RSub(max_val, min_val), RInt(0))
        THEN [i \in 1..Len(values) |-> RInt(0)]
        ELSE [i \in 1..Len(values) |-> Rescale(values[i], min_val, max_val)]

\* normalize_metric: the dict from artist name to normalized value; of two
\* artists with one name the later value would win
normalize_metric(payload, key, field) ==
    LET values == [i \in 1..Len(payload) |-> payload[i][key][field]]
        normed == NormalizeValues(values)
    IN  [name \in {payload[i].name : i \in 1..Len(payload)} |->
            normed[SetMax({i \in 1..Len(payload) : payload[i].name = name})]]

\* mutant: the two normalized signals are added without weights
BlendUnweighted(pred, delta) == RAdd(pred, delta)

\* lines 263-264: SCORE_ALPHA * pred + (1.0 - SCORE_ALPHA) * delta
Blend(pred, delta) ==
    RAdd(RMul(SCORE_ALPHA, pred), RMul(RSub(RInt(1), SCORE_ALPHA), delta))

\* dict.get(name, 0.0)
GetOrZero(d, name) == IF name \in DOMAIN d THEN d[name] ELSE RInt(0)

\* lines 253-269
WithNorm(payload) ==
    LET score(key, name) ==
            Blend(GetOrZero(normalize_metric(payload, key, "predicted"), name),
                  GetOrZero(normalize_metric(payload, key, "delta"), name))
    IN  [i \in 1..Len(payload) |->
            payload[i] @@
            [norm |-> [activity |-> score("activity", payload[i].name),
                       influence |-> score("influence", payload[i].name),
                       popularity |-> score("popularity", payload[i].name)]]]

-----------------------------------------------------------------------------
(* main(), lines 272-342: the choice of the cluster count and the labels *)

\* mutant: the largest candidate is n instead of n - 1
MaxKOffByOne(n) == Min2(8, Max2(2, n))

\* line 282
MaxK(n) == Min2(8, Max2(2, n - 1))

\* lines 290-293: the 0-based index of the first artist named "Sailor Shift", or None
SailorIdx(payload) ==
    IF \E i \in 1..Len(payload) : payload[i].name = REFERENCE_NAME
    THEN Some(SetMin({i \in 1..Len(payload) : payload[i].name = REFERENCE_NAME}) - 1)
    ELSE None

\* the silhouette values drawn for a defined silhouette_score
SilValues == {Rat(-1, 2), Rat(1, 2), Rat(1, 1)}

\* the partitions of n points: label i % d for d = 1..k
StripedLabels(n, k) == {[i \in 1..n |-> i % d] : d \in 1..k}

\* KMeans(n_clusters=k).fit_predict(features): one label in 0..k-1 per artist
KMeansLabels(n, k) ==
    IF n <= MaxPop THEN [1..n -> 0..(k - 1)] ELSE StripedLabels(n, k)

\* silhouette_score raises ValueError unless 2 <= number of labels <= n - 1
SilhouetteDefined(labels, n) ==
    LET used == Cardinality({labels[i] : i \in 1..n})
    IN  2 <= used /\ used <= n - 1

\* the values silhouette_score may return for a partition of n points
SilhouetteScores(n) ==
    IF n <= MaxPop THEN SilValues ELSE {Rat(1, 2), Rat(1, 1)}

\* np.bincount(labels)[c]
ClusterSize(labels, n, c) == Cardinality({i \in 1..n : labels[i] = c})

\* lines 306-311
SailorSize(labels, n, sailor_idx) ==
    IF IsNone(sailor_idx) THEN None
    ELSE Some(ClusterSize(labels, n, labels[Val(sailor_idx) + 1]))

\* line 312: min(0.2, 0.01 * max(sailor_size - 1, 0))
Penalty(sailor_size) == RMin(Rat(2, 10), RMul(Rat(1, 100), RInt(Max2(sailor_size - 1, 0))))

\* lines 308-315
AdjustedScore(sil_raw, sailor_size) ==
    IF IsNone(sailor_size) THEN sil_raw
    ELSE LET adj == RMul(sil_raw, RSub(RInt(1), Penalty(Val(sailor_size))))
         IN  IF Val(sailor_size) = 1 THEN RMul(adj, Rat(11, 10)) ELSE adj

\* lines 302-305: the score, or -1.0 when silhouette_score raised ValueError
RawScore(defined, score) == IF defined THEN score ELSE Rat(-1, 1)

\* line 324 and line 327: the comparison that lets a candidate replace a best
Beats(sil_adj, best) == RLt(best, sil_adj)

\* mutant: the unrestricted best is kept
ChosenKUnrestricted(bk, bk3) == bk

\* lines 332-333
ChosenK(bk, bk3) == IF IsNone(bk3) THEN bk ELSE Val(bk3)

\* mutant: two artists are enough to search a cluster count
RunsClusteringFromTwo(n) == n >= 2

\* line 294
RunsClustering(n) == n >= 3

\* mutant: the 0-based label of the library is stored as it is
WithClusterZeroBased(payload, labels) ==
    [i \in 1..Len(payload) |-> payload[i] @@ [cluster |-> labels[i]]]

\* lines 340-342: artist["cluster"] = int(label) + 1
WithCluster(payload, labels) ==
    [i \in 1..Len(payload) |-> payload[i] @@ [cluster |-> labels[i] + 1]]

-----------------------------------------------------------------------------
(* The run of main() *)

UnsetPipeline ==
    /\ artists_with_oceanus = {}
    /\ work_to_people = EmptyDict
    /\ credits = <<>>
    /\ artist_year = <<>>
    /\ min_year = None
    /\ max_year = None

UnsetCluster ==
    /\ cand_k = 0
    /\ elbow_points = <<>>
    /\ silhouette_points = <<>>
    /\ silhouette_raw_points = <<>>
    /\ best_k = 0
    /\ best_sil = RInt(0)
    /\ best_k_ge3 = None
    /\ best_sil_ge3 = RInt(0)
    /\ cand_log = <<>>
    /\ final_labels = <<>>

UnsetOutput ==
    /\ json_written = FALSE
    /\ html_written = FALSE
    /\ failure = None

\* main() starts on an input graph
Init ==
    /\ pc = "index"
    /\ edges \in EdgeLists
    /\ UnsetPipeline
    /\ artist_payload = <<>>
    /\ UnsetCluster
    /\ UnsetOutput
    /\ fn_in = None
    /\ fn_out = None

pipelineVars == <<artists_with_oceanus, work_to_people, credits, artist_year,
                  min_year, max_year>>
clusterVars == <<cand_k, elbow_points, silhouette_points, silhouette_raw_points,
                 best_k, best_sil, best_k_ge3, best_sil_ge3, cand_log, final_labels>>
outputVars == <<json_written, html_written>>
fnVars == <<fn_in, fn_out>>

\* main() ends with the exception e
Raise(e) ==
    /\ pc' = "failed"
    /\ failure' = Some(e)

\* lines 61-102: the node index, the qualifying artists, the work -> people index
BuildIndex ==
    /\ pc = "index"
    /\ IF IndexRaises(edges)
       THEN /\ Raise("KeyError")
            /\ UNCHANGED <<artists_with_oceanus, work_to_people>>
       ELSE /\ artists_with_oceanus' = QualifyLoop(edges, {})
            /\ work_to_people' = PeopleLoop(edges, EmptyDict)
            /\ pc' = "credits"
            /\ UNCHANGED failure
    /\ UNCHANGED <<edges, credits, artist_year, min_year, max_year, artist_payload,
                   clusterVars, outputVars, fnVars>>

\* lines 104-129: the credit rows
BuildCredits ==
    /\ pc = "credits"
    /\ IF CreditsRaise(edges, artists_with_oceanus)
       THEN /\ Raise("KeyError")
            /\ UNCHANGED credits
       ELSE /\ credits' = CreditsLoop(edges, artists_with_oceanus, <<>>)
            /\ pc' = "buckets"
            /\ UNCHANGED failure
    /\ UNCHANGED <<edges, artists_with_oceanus, work_to_people, artist_year, min_year,
                   max_year, artist_payload, clusterVars, outputVars, fnVars>>

\* lines 131-150: the yearly buckets
BuildBuckets ==
    /\ pc = "buckets"
    /\ artist_year' = BucketsLoop(credits, work_to_people, <<>>)
    /\ pc' = "years"
    /\ UNCHANGED <<edges, artists_with_oceanus, work_to_people, credits, min_year,
                   max_year, artist_payload, clusterVars, outputVars, failure, fnVars>>

\* lines 152-154: no year at all
NoYears ==
    /\ pc = "years"
    /\ AllYears(artist_year) = {}
    /\ Raise("RuntimeError")
    /\ UNCHANGED <<edges, pipelineVars, artist_payload, clusterVars, outputVars, fnVars>>

\* lines 152-167: the global year range
YearRange ==
    /\ pc = "years"
    /\ AllYears(artist_year) # {}
    /\ min_year' = Some(SetMin(AllYears(artist_year)))
    /\ max_year' = Some(SetMax(AllYears(artist_year)))
    /\ pc' = "trajectories"
    /\ UNCHANGED <<edges, artists_with_oceanus, work_to_people, credits, artist_year,
                   artist_payload, clusterVars, outputVars, failure, fnVars>>

\* lines 169-240: the series and forecasts of every artist
BuildTrajectories ==
    /\ pc = "trajectories"
    /\ artist_payload' = BuildPayload(artist_year, Val(min_year), Val(max_year))
    /\ pc' = "score"
    /\ UNCHANGED <<edges, pipelineVars, clusterVars, outputVars, failure, fnVars>>

\* lines 242-269: the composite scores
Score ==
    /\ pc = "score"
    /\ artist_payload' = WithNorm(artist_payload)
    /\ pc' = "cluster"
    /\ UNCHANGED <<edges, pipelineVars, clusterVars, outputVars, failure, fnVars>>

\* lines 271-294: the start of the cluster-count search
ClusterSetup ==
    /\ pc = "cluster"
    /\ elbow_points' = <<>>
    /\ silhouette_points' = <<>>
    /\ silhouette_raw_points' = <<>>
    /\ best_k' = 2
    /\ best_sil' = Rat(-1, 1)
    /\ best_k_ge3' = None
    /\ best_sil_ge3' = Rat(-1, 1)
    /\ cand_k' = 2
    /\ pc' = IF RunsClustering(Len(artist_payload)) THEN "candidates" ELSE "skip"
    /\ UNCHANGED <<edges, pipelineVars, artist_payload, cand_log, final_labels,
                   outputVars, failure, fnVars>>

\* lines 298-329: one candidate k, on the labels and the silhouette the library returns
EvalCandidate ==
    /\ pc = "candidates"
    /\ cand_k <= MaxK(Len(artist_payload))
    /\ LET n == Len(artist_payload)
           k == cand_k
       IN  \E labels \in KMeansLabels(n, k) :
           \E score \in SilhouetteScores(n) :
              LET defined == SilhouetteDefined(labels, n)
                  sil_raw == RawScore(defined, score)
                  sailor_size == SailorSize(labels, n, SailorIdx(artist_payload))
                  sil_adj == AdjustedScore(sil_raw, sailor_size)
                  wins == Beats(sil_adj, best_sil)
                  wins3 == k >= 3 /\ Beats(sil_adj, best_sil_ge3)
              IN  /\ elbow_points' = Append(elbow_points, [k |-> k])
                  /\ silhouette_raw_points' =
                        Append(silhouette_raw_points,
                               [k |-> k, score |-> sil_raw, sailor_size |-> sailor_size])
                  /\ silhouette_points' =
                        Append(silhouette_points,
                               [k |-> k, score |-> sil_adj, sailor_size |-> sailor_size])
                  /\ best_sil' = IF wins THEN sil_adj ELSE best_sil
                  /\ best_k' = IF wins THEN k ELSE best_k
                  /\ best_sil_ge3' = IF wins3 THEN sil_adj ELSE best_sil_ge3
                  /\ best_k_ge3' = IF wins3 THEN Some(k) ELSE best_k_ge3
                  /\ cand_log' = Append(cand_log,
                                        [k |-> k, undefined |-> ~defined,
                                         won |-> wins, won_ge3 |-> wins3])
    /\ cand_k' = cand_k + 1
    /\ UNCHANGED <<pc, edges, pipelineVars, artist_payload, final_labels, outputVars,
                   failure, fnVars>>

\* lines 331-342: the final partition with the chosen k, and the 1-based labels
FinalPartition ==
    /\ pc = "candidates"
    /\ cand_k > MaxK(Len(artist_payload))
    /\ best_k' = ChosenK(best_k, best_k_ge3)
    /\ \E labels \in KMeansLabels(Len(artist_payload), best_k') :
          /\ final_labels' = labels
          /\ artist_payload' = WithCluster(artist_payload, labels)
    /\ pc' = "write_json"
    /\ UNCHANGED <<edges, pipelineVars, cand_k, elbow_points, silhouette_points,
                   silhouette_raw_points, best_sil, best_k_ge3, best_sil_ge3, cand_log,
                   outputVars, failure, fnVars>>

\* lines 337-342: fewer than 3 artists, np.zeros labels
SkipClustering ==
    /\ pc = "skip"
    /\ final_labels' = [i \in 1..Len(artist_payload) |-> 0]
    /\ artist_payload' = WithCluster(artist_payload, final_labels')
    /\ pc' = "write_json"
    /\ UNCHANGED <<edges, pipelineVars, cand_k, elbow_points, silhouette_points,
                   silhouette_raw_points, best_k, best_sil, best_k_ge3, best_sil_ge3,
                   cand_log, outputVars, failure, fnVars>>

\* lines 344-366: the payload is written to task3b.json
WriteJson ==
    /\ pc = "write_json"
    /\ json_written' = TRUE
    /\ pc' = "template"
    /\ UNCHANGED <<edges, pipelineVars, artist_payload, clusterVars, html_written,
                   failure, fnVars>>

\* line 368: the template cannot be read
ReadTemplateFails ==
    /\ pc = "template"
    /\ Raise("OSError")
    /\ UNCHANGED <<edges, pipelineVars, artist_payload, clusterVars, outputVars, fnVars>>

\* lines 368-380: the template is read, filled and written to task3b.html
WriteHtml ==
    /\ pc = "template"
    /\ html_written' = TRUE
    /\ pc' = "done"
    /\ UNCHANGED <<edges, pipelineVars, artist_payload, clusterVars, json_written,
                   failure, fnVars>>

ClusterNext ==
    \/ ClusterSetup
    \/ EvalCandidate
    \/ FinalPartition
    \/ SkipClustering

Next ==
    \/ BuildIndex
    \/ BuildCredits
    \/ BuildBuckets
    \/ NoYears
    \/ YearRange
    \/ BuildTrajectories
    \/ Score
    \/ ClusterNext
    \/ WriteJson
    \/ ReadTemplateFails
    \/ WriteHtml

Spec == Init /\ [][Next]_vars

-----------------------------------------------------------------------------
(* The cluster-count search on its own: lines 271-342 of main(), on a population *)

RECURSIVE DecimalChars(_)
DecimalChars(i) ==
    IF i < 10 THEN <<Digits[i + 1]>> ELSE DecimalChars(i \div 10) \o <<Digits[(i % 10) + 1]>>

\* n scored artists with distinct names, the one at position s (if any) being the
\* reference artist; the search treats the other artists alike, so the reference
\* artist is drawn in the first position only
Population(n, s) ==
    [i \in 1..n |->
        [name |-> IF i = s THEN REFERENCE_NAME ELSE <<"N">> \o DecimalChars(i),
         norm |-> [activity |-> RInt(0), influence |-> RInt(0), popularity |-> RInt(0)]]]

Populations ==
    {Population(n, s) : n \in 1..MaxPop, s \in {0, 1}} \cup {Population(LargePop, 0)}

InitCluster ==
    /\ pc = "cluster"
    /\ edges = <<>>
    /\ UnsetPipeline
    /\ artist_payload \in Populations
    /\ UnsetCluster
    /\ UnsetOutput
    /\ fn_in = None
    /\ fn_out = None

SpecCluster == InitCluster /\ [][ClusterNext]_vars

-----------------------------------------------------------------------------
(* The pure functions on their own *)

\* the year the windows drawn for linear_forecast start at
WindowStart == 2019

\* windows of consecutive years with any values, rising or falling
ForecastInputs ==
    {[fn |-> "linear_forecast",
      years |-> Range(WindowStart, WindowStart + Len(v) - 1),
      values |-> v,
      pred_year |-> WindowStart + Max2(Len(v), 1) - 1 + PRED_YEARS_AHEAD] :
        v \in UNION {[1..m -> 0..MaxVal] : m \in 0..MaxWin}}

\* the levels drawn for the field normalize_metric reads
NormLevels == {RInt(0), Rat(1, 2), Rat(3, 2), RInt(2)}

NormalizeInputs ==
    {[fn |-> "normalize_metric",
      payload |-> [i \in 1..Len(v) |->
                      [name |-> <<"N">> \o DecimalChars(i),
                       activity |-> [predicted |-> v[i]]]]] :
        v \in UNION {[1..m -> NormLevels] : m \in 1..MaxPop}}

\* the yearly buckets of one artist with counts[i] works in the i-th year from mn,
\* the first of them notable, and as many collaborators
YearlyOf(counts, mn) ==
    [y \in {mn + i - 1 : i \in {j \in 1..Len(counts) : counts[j] > 0}} |->
        [works |-> {10 * y + w : w \in 1..counts[y - mn + 1]},
         notable |-> {10 * y + 1},
         collabs |-> 1..counts[y - mn + 1]]]

\* one artist with at least one bucket, in a global year range of Len(counts) years
TrajectoryInputs ==
    {[fn |-> "trajectory",
      entry |-> [name |-> <<"N">>, yearly |-> YearlyOf(v, WindowStart)],
      min_year |-> WindowStart,
      max_year |-> WindowStart + Len(v) - 1] :
        v \in {c \in UNION {[1..m -> 0..MaxVal] : m \in 1..MaxWin} :
                  \E i \in 1..Len(c) : c[i] > 0}
              \cup {[i \in 1..LongSpan |-> i % 2]}}

InitFn ==
    /\ pc = "call"
    /\ edges = <<>>
    /\ UnsetPipeline
    /\ artist_payload = <<>>
    /\ UnsetCluster
    /\ UnsetOutput
    /\ fn_in \in {Some(x) : x \in ForecastInputs \cup NormalizeInputs \cup TrajectoryInputs}
    /\ fn_out = None

CallForecast ==
    /\ pc = "call"
    /\ Val(fn_in).fn = "linear_forecast"
    /\ fn_out' = Some(linear_forecast(Val(fn_in).years, Val(fn_in).values,
                                      Val(fn_in).pred_year))
    /\ pc' = "return"
    /\ UNCHANGED <<edges, pipelineVars, artist_payload, clusterVars, outputVars,
                   failure, fn_in>>

CallNormalize ==
    /\ pc = "call"
    /\ Val(fn_in).fn = "normalize_metric"
    /\ fn_out' = Some(normalize_metric(Val(fn_in).payload, "activity", "predicted"))
    /\ pc' = "return"
    /\ UNCHANGED <<edges, pipelineVars, artist_payload, clusterVars, outputVars,
                   failure, fn_in>>

\* lines 171-240 for one artist
CallTrajectory ==
    /\ pc = "call"
    /\ Val(fn_in).fn = "trajectory"
    /\ fn_out' = Some(PayloadEntry(Val(fn_in).entry, Val(fn_in).min_year,
                                   Val(fn_in).max_year))
    /\ pc' = "return"
    /\ UNCHANGED <<edges, pipelineVars, artist_payload, clusterVars, outputVars,
                   failure, fn_in>>

FnNext == CallForecast \/ CallNormalize \/ CallTrajectory

SpecFn == InitFn /\ [][FnNext]_vars

-----------------------------------------------------------------------------
(* Properties *)

Metrics == {"activity", "influence", "popularity"}

\* the labels have been assigned to the artists
Labelled ==
    \/ pc \in {"write_json", "template", "done"}
    \/ pc = "failed" /\ failure = Some("OSError")

\* linear_forecast has returned
ForecastReturned == pc = "return" /\ Val(fn_in).fn = "linear_forecast"

\* normalize_metric has returned
NormalizeReturned == pc = "return" /\ Val(fn_in).fn = "normalize_metric"

(* C1: whatever window linear_forecast is given (rising or falling values, *)
(* fitted or too short to fit), its result has predicted >= current,       *)
(* delta >= 0 and delta = predicted - current.                             *)
C1_ForecastFloor ==
    ForecastReturned =>
        LET r == Val(fn_out) IN
        /\ RLe(r.current, r.predicted)
        /\ RLe(RInt(0), r.delta)
        /\ REq(r.delta, RSub(r.predicted, r.current))

\* a fitted window with a falling trend, whose projection lies below the last value
C1_Witness ==
    /\ ForecastReturned
    /\ Len(Val(fn_in).years) >= 2
    /\ LET fit == LstsqFit(Val(fn_in).years, Val(fn_in).values)
           raw == RAdd(RMul(fit.slope, RInt(Val(fn_in).pred_year)), fit.intercept)
       IN  /\ RLt(fit.slope, RInt(0))
           /\ RLt(raw, Val(fn_out).current)
    /\ REq(Val(fn_out).predicted, Val(fn_out).current)

NonDecreasing(s) == \A i \in 1..(Len(s) - 1) : s[i] <= s[i + 1]

(* C2: every artist of the payload has, for each of the three metrics, a    *)
(* series that never decreases and has exactly max_year - min_year + 1      *)
(* points, one per year of the global range.                                *)
C2_SeriesShape ==
    artist_payload # <<>> =>
        \A i \in 1..Len(artist_payload) :
            LET ser == artist_payload[i].series
                span == Val(max_year) - Val(min_year) + 1
            IN  /\ Len(ser.years) = span
                /\ \A j \in 1..span : ser.years[j] = Val(min_year) + j - 1
                /\ \A m \in Metrics :
                      /\ Len(ser[m]) = span
                      /\ NonDecreasing(ser[m])

\* the release year of each node, or None
YearOf == [id \in DOMAIN nodes |-> parse_year(nodes[id].release_date)]

\* the normalized display name of each node, or None without a name
NameOf ==
    [id \in DOMAIN nodes |->
        IF IsNone(nodes[id].name) \/ Val(nodes[id].name) = <<>> THEN None
        ELSE Some(JoinSplit(Val(nodes[id].name)))]

\* the dated credits of the artist called name
DatedCreditsOf(name) ==
    {j \in 1..Len(credits) :
        /\ ~IsNone(YearOf[credits[j].work_id])
        /\ NameOf[credits[j].artist_id] = Some(name)}

\* an artist with a single dated credit in a range of several years
C2_Witness ==
    /\ pc = "score"
    /\ Val(max_year) > Val(min_year)
    /\ \E i \in 1..Len(artist_payload) :
          /\ Cardinality(DatedCreditsOf(artist_payload[i].name)) = 1
          /\ Len(artist_payload[i].series.activity) >= 3

(* C3: normalize_metric maps every artist into [0, 1] without dividing by   *)
(* zero; when the raw values differ, the artists holding the minimum get 0  *)
(* and those holding the maximum get 1; when all raw values are equal       *)
(* (a single artist included) every artist gets 0.                          *)
C3_MinMaxNormalization ==
    NormalizeReturned =>
        LET payload == Val(fn_in).payload
            out == Val(fn_out)
            raw(i) == payload[i].activity.predicted
            I == 1..Len(payload)
            isMin(i) == \A j \in I : RLe(raw(i), raw(j))
            isMax(i) == \A j \in I : RLe(raw(j), raw(i))
            allEqual == \A i, j \in I : REq(raw(i), raw(j))
        IN  /\ DOMAIN out = {payload[i].name : i \in I}
            /\ \A i \in I :
                  LET v == out[payload[i].name] IN
                  /\ v.den > 0
                  /\ RLe(RInt(0), v) /\ RLe(v, RInt(1))
                  /\ allEqual => REq(v, RInt(0))
                  /\ (~allEqual /\ isMin(i)) => REq(v, RInt(0))
                  /\ (~allEqual /\ isMax(i)) => REq(v, RInt(1))

\* differing raw values: two artists share the maximum, one lies strictly inside
C3_Witness ==
    /\ NormalizeReturned
    /\ LET payload == Val(fn_in).payload
           out == Val(fn_out)
       IN  /\ \E i, j \in 1..Len(payload) :
                 /\ i # j
                 /\ REq(out[payload[i].name], RInt(1))
                 /\ REq(out[payload[j].name], RInt(1))
           /\ \E i \in 1..Len(payload) :
                 /\ RLt(RInt(0), out[payload[i].name])
                 /\ RLt(out[payload[i].name], RInt(1))
           /\ \E i \in 1..Len(payload) : REq(out[payload[i].name], RInt(0))

(* C4: once the labels are assigned, cluster_k lies in                      *)
(* [2, min(8, max(2, n - 1))] for a population of n artists, and every      *)
(* artist carries one label, an integer in [1, cluster_k].                  *)
C4_ClusterRange ==
    Labelled =>
        LET n == Len(artist_payload)
            lowerOfCap == IF n - 1 > 2 THEN n - 1 ELSE 2
            upper == IF lowerOfCap < 8 THEN lowerOfCap ELSE 8
        IN  /\ n >= 1
            /\ 2 <= best_k /\ best_k <= upper
            /\ \A i \in 1..n :
                  /\ "cluster" \in DOMAIN artist_payload[i]
                  /\ artist_payload[i].cluster \in 1..best_k

\* more than nine artists: the cap of 8 is what bounds the chosen k
C4_Witness ==
    /\ pc = "write_json"
    /\ Len(artist_payload) - 1 > 8
    /\ best_k = 8
    /\ \E i \in 1..Len(artist_payload) : artist_payload[i].cluster = 8

\* the adjusted score recorded for the candidate k
AdjOf(k) == silhouette_points[k - 1].score

\* the candidates the loop evaluated
Evaluated == {silhouette_points[j].k : j \in 1..Len(silhouette_points)}

(* C5 as stated: whenever a candidate k >= 3 was evaluated and produced a   *)
(* finite adjusted score (every score the code computes is a finite number, *)
(* also the -1.0 that stands for an undefined silhouette), the selected k   *)
(* is a candidate k >= 3 with the highest adjusted score among them, and    *)
(* k = 2 is selected only when there is no such candidate.                  *)
C5_AsStated ==
    Labelled =>
        LET K3 == {k \in Evaluated : k >= 3}
        IN  IF K3 # {}
            THEN /\ best_k \in K3
                 /\ \A k \in K3 : RLe(AdjOf(k), AdjOf(best_k))
            ELSE best_k = 2

(* C5 amended: whenever a candidate k >= 3 produced an adjusted score       *)
(* strictly above -1.0, the selected k is a candidate k >= 3 with the       *)
(* highest adjusted score among the candidates k >= 3, even when k = 2      *)
(* scores strictly higher; k = 2 is selected only when no candidate k >= 3  *)
(* scored above -1.0.                                                       *)
C5_PreferAtLeastThree ==
    Labelled =>
        LET K3 == {k \in Evaluated : k >= 3}
            above == {k \in K3 : RLt(Rat(-1, 1), AdjOf(k))}
        IN  IF above # {}
            THEN /\ best_k \in K3
                 /\ \A k \in K3 : RLe(AdjOf(k), AdjOf(best_k))
            ELSE best_k = 2

\* k = 2 scored strictly higher than every k >= 3, and a k >= 3 is selected
C5_Witness ==
    /\ pc = "write_json"
    /\ best_k >= 3
    /\ RLt(AdjOf(best_k), AdjOf(2))

(* C6: a candidate whose silhouette is undefined enters the search with the *)
(* worst possible score, -1.0, and updates neither the best k nor the best  *)
(* k >= 3, with or without the reference artist in the population.          *)
C6_UndefinedNeverWins ==
    \A j \in 1..Len(cand_log) :
        cand_log[j].undefined =>
            /\ REq(silhouette_points[j].score, Rat(-1, 1))
            /\ ~cand_log[j].won
            /\ ~cand_log[j].won_ge3

(* C7: with 1 or 2 artists no candidate is evaluated, the elbow, silhouette *)
(* and silhouette_raw lists stay empty, and every artist gets label 1.      *)
C7_SmallPopulationSkipped ==
    Len(artist_payload) \in {1, 2} =>
        /\ elbow_points = <<>>
        /\ silhouette_points = <<>>
        /\ silhouette_raw_points = <<>>
        /\ cand_log = <<>>
        /\ pc # "candidates"
        /\ Labelled => \A i \in 1..Len(artist_payload) : artist_payload[i].cluster = 1

\* two artists, labelled
C7_Witness ==
    /\ pc = "write_json"
    /\ Len(artist_payload) = 2
    /\ \A i \in 1..2 : artist_payload[i].cluster = 1

\* the works of the qualifying genre
TargetWorks ==
    {id \in DOMAIN nodes :
        nodes[id].type \in {"Song", "Album"} /\ GenreKey(nodes[id]) = TARGET_GENRE}

\* the node id qualifies: an artist with a creative-credit edge onto a
\* qualifying-genre work
Qualifies(id) ==
    /\ id \in DOMAIN nodes
    /\ nodes[id].type \in {"Person", "MusicalGroup"}
    /\ \E i \in 1..Len(edges) :
          /\ edges[i].type \in {"PerformerOf", "ProducerOf", "ComposerOf", "LyricistOf"}
          /\ edges[i].source = id
          /\ edges[i].target \in TargetWorks

\* the edge is a creative credit of a qualifying artist on a work
IsCredit(e) ==
    /\ e.type \in {"PerformerOf", "ProducerOf", "ComposerOf", "LyricistOf"}
    /\ Qualifies(e.source)
    /\ e.target \in DOMAIN nodes
    /\ nodes[e.target].type \in {"Song", "Album"}

\* the release date holds a year: its first four characters read as an integer
HasYear(date) ==
    /\ ~IsNone(date)
    /\ ~IsNone(IntOf(SubSeq(Val(date), 1, Min2(4, Len(Val(date))))))

\* the nodes whose release date holds a year
DatedNodes == {id \in DOMAIN nodes : HasYear(nodes[id].release_date)}

\* no qualifying artist has a credit with a parseable release year
NoDatedCredit ==
    \A i \in 1..Len(edges) : IsCredit(edges[i]) => edges[i].target \notin DatedNodes

(* C8: when no qualifying artist has a credit with a parseable release      *)
(* year, the run can only end in the RuntimeError of line 154: it never     *)
(* reaches the forecasts, the scores or the clustering, and neither the     *)
(* JSON nor the HTML document is written.                                   *)
C8_EmptyPopulationFails ==
    NoDatedCredit =>
        /\ pc \in {"index", "credits", "buckets", "years", "failed"}
        /\ pc = "years" => AllYears(artist_year) = {}
        /\ pc = "failed" => failure = Some("RuntimeError")
        /\ artist_payload = <<>>
        /\ cand_k = 0 /\ final_labels = <<>>
        /\ ~json_written /\ ~html_written

\* a qualifying artist whose only credits are undated, and the run has failed
C8_Witness ==
    /\ NoDatedCredit
    /\ pc = "failed"
    /\ credits # <<>>

\* the run got past the block named, and did not stop in it
PastIndex ==
    \/ pc \notin {"index", "failed"}
    \/ pc = "failed" /\ failure \in {Some("RuntimeError"), Some("OSError")}
PastCredits == PastIndex /\ pc # "credits"
PastBuckets == PastCredits /\ pc # "buckets"

\* the edge names a node id that is not in the index
Dangling(e) == e.source \notin DOMAIN nodes \/ e.target \notin DOMAIN nodes

\* the input without its dangling edges
WithoutDangling(es) == LET keep(e) == ~Dangling(e) IN SelectSeq(es, keep)

(* C9: an edge naming a node id absent from the index never makes the run   *)
(* fail, yields no credit, qualifies no artist, adds no collaborator, and   *)
(* leaves the qualifying set, the work -> people index, the credits, the    *)
(* yearly buckets and every cumulative series as they are for the input     *)
(* without that edge.                                                       *)
C9_DanglingEdgesDropped ==
    LET clean == WithoutDangling(edges)
        q == QualifyLoop(clean, {})
        w == PeopleLoop(clean, EmptyDict)
        c == CreditsLoop(clean, q, <<>>)
        ay == BucketsLoop(c, w, <<>>)
    IN  /\ failure # Some("KeyError")
        /\ PastIndex =>
              /\ artists_with_oceanus = q
              /\ artists_with_oceanus \subseteq DOMAIN nodes
              /\ work_to_people = w
              /\ \A t \in DOMAIN work_to_people :
                    t \in DOMAIN nodes /\ work_to_people[t] \subseteq DOMAIN nodes
        /\ PastCredits =>
              /\ credits = c
              /\ \A j \in 1..Len(credits) :
                    credits[j].artist_id \in DOMAIN nodes /\ credits[j].work_id \in DOMAIN nodes
        /\ PastBuckets => artist_year = ay
        /\ pc = "score" =>
              artist_payload = BuildPayload(ay, SetMin(AllYears(ay)), SetMax(AllYears(ay)))

\* a qualifying artist with a creative edge onto a missing node, and an edge from a
\* missing node onto a qualifying-genre work; the trajectories are built
C9_Witness ==
    /\ pc = "score"
    /\ \E i \in 1..Len(edges) :
          /\ edges[i].type \in CREATIVE_EDGES
          /\ edges[i].source \in artists_with_oceanus
          /\ edges[i].target \notin DOMAIN nodes
    /\ \E i \in 1..Len(edges) :
          /\ edges[i].type \in CREATIVE_EDGES
          /\ edges[i].source \notin DOMAIN nodes
          /\ edges[i].target \in oceanus_works

(* C10: the qualifying set is exactly the artist nodes (Person or           *)
(* MusicalGroup) with a creative-credit edge onto a qualifying-genre work,  *)
(* and the credit list is exactly the creative-credit edges from qualifying *)
(* artists to Song or Album nodes of any genre, in the order of the input.  *)
C10_CreditExtraction ==
    /\ PastIndex => artists_with_oceanus = {id \in DOMAIN nodes : Qualifies(id)}
    /\ PastCredits =>
          LET expected == SelectSeq(edges, IsCredit)
          IN  /\ Len(credits) = Len(expected)
              /\ \A j \in 1..Len(credits) :
                    /\ credits[j].artist_id = expected[j].source
                    /\ credits[j].work_id = expected[j].target
                    /\ nodes[credits[j].artist_id].type \in {"Person", "MusicalGroup"}
                    /\ nodes[credits[j].work_id].type \in {"Song", "Album"}

\* a credit on a work of another genre, beside edges that yield no credit
C10_Witness ==
    /\ pc = "buckets"
    /\ \E j \in 1..Len(credits) : credits[j].work_id \notin TargetWorks
    /\ \E i \in 1..Len(edges) :
          /\ edges[i].type \in CREATIVE_EDGES
          /\ ~Dangling(edges[i])
          /\ nodes[edges[i].source].type \notin ARTIST_TYPES
    /\ \E i \in 1..Len(edges) :
          /\ edges[i].type \in CREATIVE_EDGES
          /\ ~Dangling(edges[i])
          /\ nodes[edges[i].target].type \notin WORK_TYPES

\* the trajectories have been built
HasPayload == artist_payload # <<>>

\* the work ids of the dated credits of the artist called name
WorksOf(name) == {credits[j].work_id : j \in DatedCreditsOf(name)}

\* the node ids credited under the name
IdsOf(name) == {credits[j].artist_id : j \in DatedCreditsOf(name)}

\* the normalized names that have a dated credit
DatedNames ==
    {Val(NameOf[credits[j].artist_id]) :
        j \in {x \in 1..Len(credits) :
                  /\ ~IsNone(YearOf[credits[x].work_id])
                  /\ ~IsNone(NameOf[credits[x].artist_id])}}

(* C11: the payload has one entry per normalized display name that has a    *)
(* dated credit, no two entries share a name, and the entry of a name       *)
(* counts the works of every node id credited under that name: the credits  *)
(* of two node ids with one normalized name are merged into one trajectory. *)
C11_MergedByName ==
    HasPayload =>
        LET I == 1..Len(artist_payload) IN
        /\ \A i, j \in I : i # j => artist_payload[i].name # artist_payload[j].name
        /\ {artist_payload[i].name : i \in I} = DatedNames
        /\ \A i \in I :
              LET act == artist_payload[i].series.activity
              IN  act[Len(act)] = Cardinality(WorksOf(artist_payload[i].name))

\* two node ids whose names differ only in spacing share one entry, each with a
\* dated credit on a work of its own
C11_Witness ==
    /\ pc = "score"
    /\ \E i \in 1..Len(artist_payload) :
          /\ Cardinality(IdsOf(artist_payload[i].name)) >= 2
          /\ \E a, b \in DatedCreditsOf(artist_payload[i].name) :
                /\ credits[a].artist_id # credits[b].artist_id
                /\ nodes[credits[a].artist_id].name # nodes[credits[b].artist_id].name
                /\ credits[a].work_id # credits[b].work_id

\* the trajectory of one artist has been built
TrajectoryReturned == pc = "return" /\ Val(fn_in).fn = "trajectory"

\* the forecast of a window too short to fit: the last value, or 0 without one
Degenerate(f, values) ==
    LET last == IF values = <<>> THEN 0 ELSE values[Len(values)]
    IN  /\ f.predicted = RInt(last)
        /\ f.current = RInt(last)
        /\ f.delta = RInt(0)

(* C12: linear_forecast on a window of fewer than 2 points returns          *)
(* predicted = current = the last value and delta = 0 (all 0 for an empty   *)
(* window); in the trajectory of an artist the regression window has fewer  *)
(* than 2 points exactly when min_year = max_year, and then each of the     *)
(* three forecasts is that of the single point of the series.               *)
C12_InsufficientData ==
    /\ ForecastReturned =>
          (Len(Val(fn_in).years) < 2 => Degenerate(Val(fn_out), Val(fn_in).values))
    /\ TrajectoryReturned =>
          LET mn == Val(fn_in).min_year
              mx == Val(fn_in).max_year
              out == Val(fn_out)
              w == Window(Series(Val(fn_in).entry.yearly, mn, mx), mn, mx)
          IN  /\ Len(w) < 2 <=> mn = mx
              /\ Len(w) < 2 =>
                    \A m \in Metrics :
                        /\ Len(out.series[m]) = 1
                        /\ Degenerate(out[m], out.series[m])

\* an artist with two works in the only year of the range
C12_Witness ==
    /\ TrajectoryReturned
    /\ Val(fn_in).min_year = Val(fn_in).max_year
    /\ Val(fn_out).activity.predicted = RInt(2)
    /\ Val(fn_out).activity.delta = RInt(0)

\* the composite scores have been computed
Scored == artist_payload # <<>> /\ "norm" \in DOMAIN artist_payload[1]

\* every artist has delta = 0 on the metric m
ZeroDelta(m) ==
    \A i \in 1..Len(artist_payload) : REq(artist_payload[i][m].delta, RInt(0))

\* the min-max normalized predicted level of artist i on the metric m
NormPredicted(i, m) ==
    LET raw(j) == artist_payload[j][m].predicted
        I == 1..Len(artist_payload)
        lo == CHOOSE j \in I : \A x \in I : RLe(raw(j), raw(x))
        hi == CHOOSE j \in I : \A x \in I : RLe(raw(x), raw(j))
    IN  IF REq(raw(lo), raw(hi)) THEN RInt(0)
        ELSE RDiv(RSub(raw(i), raw(lo)), RSub(raw(hi), raw(lo)))

(* C13 as stated: in a population where every artist has delta = 0 on a     *)
(* metric, each artist's composite score for that metric equals that        *)
(* artist's normalized predicted level.                                     *)
C13_AsStated ==
    Scored =>
        \A m \in Metrics :
            ZeroDelta(m) =>
                \A i \in 1..Len(artist_payload) :
                    REq(artist_payload[i].norm[m], NormPredicted(i, m))

(* C13 amended: in a population where every artist has delta = 0 on a       *)
(* metric, each artist's composite score for that metric equals 0.7 times   *)
(* that artist's normalized predicted level: 0.0 and 0.7 for two artists    *)
(* with predicted levels 0 and 1.                                           *)
C13_ZeroDeltaScore ==
    Scored =>
        \A m \in Metrics :
            ZeroDelta(m) =>
                \A i \in 1..Len(artist_payload) :
                    REq(artist_payload[i].norm[m], RMul(Rat(7, 10), NormPredicted(i, m)))

\* two artists with delta = 0 and different predicted levels on a metric: the
\* lower one scores 0, the higher one 0.7
C13_Witness ==
    /\ pc = "cluster"
    /\ \E m \in Metrics :
          /\ ZeroDelta(m)
          /\ \E i, j \in 1..Len(artist_payload) :
                /\ RLt(artist_payload[i][m].predicted, artist_payload[j][m].predicted)
                /\ REq(artist_payload[i].norm[m], RInt(0))
                /\ REq(artist_payload[j].norm[m], Rat(7, 10))

\* the sum of the sizes of the sets f of the buckets of the years Y
RECURSIVE SizeSum(_, _, _)
SizeSum(yearly, f, Y) ==
    IF Y = {} THEN 0
    ELSE LET y == CHOOSE x \in Y : TRUE
         IN  Cardinality(yearly[y][f]) + SizeSum(yearly, f, Y \ {y})

\* the bucket set each series counts
BucketField == [activity |-> "works", influence |-> "collabs", popularity |-> "notable"]

(* C14: for every artist and every year y of [min_year, max_year], each of  *)
(* the three cumulative counters equals the sum of the sizes of that        *)
(* artist's yearly bucket sets over the years <= y; a year without a bucket *)
(* repeats the counters of the year before (0 when it is the first year).   *)
C14_RunningAccumulation ==
    HasPayload =>
        /\ Len(artist_payload) = Len(artist_year)
        /\ \A i \in 1..Len(artist_payload) :
              LET yearly == artist_year[i].yearly
                  ser == artist_payload[i].series
              IN  \A j \in 1..Len(ser.years) :
                     LET y == Val(min_year) + j - 1 IN
                     \A m \in Metrics :
                        /\ ser[m][j] =
                              SizeSum(yearly, BucketField[m], {x \in DOMAIN yearly : x <= y})
                        /\ y \notin DOMAIN yearly =>
                              ser[m][j] = IF j = 1 THEN 0 ELSE ser[m][j - 1]

\* yearly activity counts 1, 0, 2 over three years give the series 1, 1, 3
C14_Witness ==
    /\ pc = "score"
    /\ \E i \in 1..Len(artist_payload) :
          /\ artist_payload[i].series.activity = <<1, 1, 3>>
          /\ Val(min_year) + 1 \notin DOMAIN artist_year[i].yearly
          /\ Cardinality(artist_year[i].yearly[Val(max_year)].works) = 2

\* the candidates recorded so far, by position in the silhouette lists
Candidates == 1..Len(silhouette_points)

\* the fraction min(0.2, 0.01 * (s - 1)) for a cluster of s artists
Fraction(s) == IF s - 1 >= 20 THEN Rat(2, 10) ELSE Rat(s - 1, 100)

(* C16: for every candidate in which the reference artist is present in a  *)
(* cluster of s >= 2 artists, the adjusted score is the raw score           *)
(* multiplied by 1 - min(0.2, 0.01 * (s - 1)), the fraction is at most 0.2, *)
(* and the adjusted score is never higher than the raw score; without the   *)
(* reference artist the adjusted score equals the raw score.                *)
C16_PenaltyNeverRaises ==
    \A j \in Candidates :
        LET raw == silhouette_raw_points[j].score
            adj == silhouette_points[j].score
            size == silhouette_points[j].sailor_size
        IN  /\ IsNone(size) => REq(adj, raw)
            /\ (~IsNone(size) /\ Val(size) >= 2) =>
                  /\ RLe(Fraction(Val(size)), Rat(2, 10))
                  /\ REq(adj, RMul(raw, RSub(RInt(1), Fraction(Val(size)))))
                  /\ RLe(adj, raw)

(* C17: for every candidate in which the reference artist is alone in its   *)
(* cluster, the adjusted score is never lower than the raw score, whatever  *)
(* the raw score in [-1, 1].                                                *)
C17_BonusNeverLowers ==
    \A j \in Candidates :
        silhouette_points[j].sailor_size = Some(1) =>
            RLe(silhouette_raw_points[j].score, silhouette_points[j].score)

\* the yearly buckets have been built
HasBuckets == artist_year # <<>>

(* C18: for every artist entry (keyed by normalized name) and every year,   *)
(* the yearly collaborator set contains none of the node ids credited under *)
(* that name, also when two Person ids sharing the name are credited on the *)
(* same work.                                                               *)
C18_NeverOwnCollaborator ==
    HasBuckets =>
        \A i \in 1..Len(artist_year) :
            \A y \in DOMAIN artist_year[i].yearly :
                artist_year[i].yearly[y].collabs \cap IdsOf(artist_year[i].name) = {}

\* the Person ids with a creative edge onto the work
PersonsOn(work) ==
    {edges[x].source : x \in {z \in 1..Len(edges) :
        /\ edges[z].type \in {"PerformerOf", "ProducerOf", "ComposerOf", "LyricistOf"}
        /\ edges[z].target = work
        /\ edges[z].source \in DOMAIN nodes
        /\ nodes[edges[z].source].type = "Person"}}

\* the persons credited beside an artist on its works of the year y, D being the
\* artist's dated credits: for each credit, everyone on the work but the credited
\* node id
CollaboratorsIn(D, y) ==
    UNION {PersonsOn(credits[j].work_id) \ {credits[j].artist_id} :
              j \in {x \in D : YearOf[credits[x].work_id] = Some(y)}}

(* C19 as stated: for every artist and year y, cumulative influence equals  *)
(* the number of distinct collaborating person ids on the artist's works    *)
(* released in years <= y: a person who collaborates in several years is    *)
(* counted once.                                                            *)
C19_AsStated ==
    HasPayload =>
        \A i \in 1..Len(artist_payload) :
            LET ser == artist_payload[i].series
                D == DatedCreditsOf(artist_payload[i].name)
            IN  \A j \in 1..Len(ser.years) :
                   ser.influence[j] =
                       Cardinality(UNION {CollaboratorsIn(D, y) :
                                             y \in Val(min_year)..ser.years[j]})

(* C19 amended: for every artist and year y, cumulative influence equals    *)
(* the sum, over the years <= y, of the number of distinct collaborating    *)
(* person ids of that year: each year adds the number of its distinct       *)
(* collaborators to the total of the year before, so a person who           *)
(* collaborates in several different years is counted once per year.        *)
C19_InfluencePerYear ==
    HasPayload =>
        \A i \in 1..Len(artist_payload) :
            LET ser == artist_payload[i].series
                D == DatedCreditsOf(artist_payload[i].name)
            IN  \A j \in 1..Len(ser.years) :
                   ser.influence[j] =
                       (IF j = 1 THEN 0 ELSE ser.influence[j - 1])
                       + Cardinality(CollaboratorsIn(D, ser.years[j]))

\* one person beside the artist in two different years: counted twice
C19_Witness ==
    /\ pc = "score"
    /\ \E i \in 1..Len(artist_payload) :
          LET ser == artist_payload[i].series
              D == DatedCreditsOf(artist_payload[i].name)
          IN  /\ \E y1, y2 \in Val(min_year)..Val(max_year) :
                    /\ y1 # y2
                    /\ CollaboratorsIn(D, y1) \cap CollaboratorsIn(D, y2) # {}
              /\ ser.influence[Len(ser.influence)] = 2
              /\ Cardinality(UNION {CollaboratorsIn(D, y) :
                                       y \in Val(min_year)..Val(max_year)}) = 1

\* main() has ended, normally or with an exception
Ended == pc \in {"done", "failed"}

(* C20: nothing is written before every artist has its forecasts, scores    *)
(* and cluster label, and a run that has ended, normally or with an         *)
(* exception at any step (reading the HTML template included), has written  *)
(* either both the JSON document and the HTML page or neither.              *)
C20_AllOrNothing ==
    /\ (json_written \/ html_written) =>
          /\ artist_payload # <<>>
          /\ \A i \in 1..Len(artist_payload) :
                /\ "norm" \in DOMAIN artist_payload[i]
                /\ "cluster" \in DOMAIN artist_payload[i]
    /\ Ended => (json_written <=> html_written)

\* the cluster labels the artists carry
LabelsInUse == {artist_payload[i].cluster : i \in 1..Len(artist_payload)}

\* the k the final partition is asked for: the best candidate k >= 3 when there is
\* one, else the last candidate that raised the unrestricted best, else 2
FinalK ==
    LET winners == {j \in 1..Len(cand_log) : cand_log[j].won}
    IN  IF ~IsNone(best_k_ge3) THEN Val(best_k_ge3)
        ELSE IF winners # {} THEN cand_log[SetMax(winners)].k
        ELSE 2

(* C21: once the labels are assigned, with 3 or more artists the reported   *)
(* cluster_k is the k the final partition was made with, and every label    *)
(* lies in 1..cluster_k; with 1 or 2 artists cluster_k is reported as 2     *)
(* while every artist carries label 1, so that cluster_k differs from the   *)
(* number of clusters in use.                                               *)
C21_ReportedClusterCount ==
    Labelled =>
        LET n == Len(artist_payload) IN
        /\ n >= 3 =>
              /\ best_k = FinalK
              /\ best_k \in Evaluated
              /\ final_labels \in [1..n -> 0..(best_k - 1)]
              /\ LabelsInUse \subseteq 1..best_k
        /\ n \in {1, 2} =>
              /\ best_k = 2
              /\ LabelsInUse = {1}
              /\ Cardinality(LabelsInUse) # best_k

\* a single artist: label 1, reported cluster count 2
C21_Witness ==
    /\ pc = "write_json"
    /\ Len(artist_payload) = 1
    /\ best_k = 2
    /\ LabelsInUse = {1}

\* the works of the year y among the dated credits D
WorksIn(D, y) == {credits[x].work_id : x \in {z \in D : YearOf[credits[z].work_id] = Some(y)}}

(* C22: for every artist and every year, cumulative popularity is at most   *)
(* cumulative activity, and each year raises cumulative activity by the     *)
(* number of distinct work ids among the artist's credits of that year:     *)
(* several creative-credit edges from one artist to one work count once.    *)
C22_PopularityWithinActivity ==
    HasPayload =>
        \A i \in 1..Len(artist_payload) :
            LET ser == artist_payload[i].series
                D == DatedCreditsOf(artist_payload[i].name)
            IN  \A j \in 1..Len(ser.years) :
                   /\ ser.popularity[j] <= ser.activity[j]
                   /\ ser.activity[j] =
                         (IF j = 1 THEN 0 ELSE ser.activity[j - 1])
                         + Cardinality(WorksIn(D, ser.years[j]))

\* two credits of different kinds from one node id on one work, counted once, and
\* a work that is not notable
C22_Witness ==
    /\ pc = "score"
    /\ \E i \in 1..Len(artist_payload) :
          LET ser == artist_payload[i].series
              D == DatedCreditsOf(artist_payload[i].name)
              last == Len(ser.years)
          IN  /\ \E a, b \in D :
                    /\ a # b
                    /\ credits[a].artist_id = credits[b].artist_id
                    /\ credits[a].work_id = credits[b].work_id
              /\ ser.activity[last] < Cardinality(D)
              /\ ser.popularity[last] < ser.activity[last]

=============================================================================
